---- MODULE Spec2Model ----
(***************************************************************************)
(* A model of leetscrape.question.GetQuestion: the constructor, which      *)
(* loads the slug -> QID table from the bulk listing endpoint, and         *)
(* scrape(), which posts the detail query, retries on throttling statuses  *)
(* and assembles a Question.                                               *)
(***************************************************************************)
EXTENDS Integers, Sequences, FiniteSets, TLC

VARIABLES
    listing,         \* upstream: the rows of "stat_status_pairs" of the bulk listing
    question,        \* upstream: data.question of the detail endpoint's JSON answer
    pc,              \* position of the caller / of scrape()
    titleSlug,       \* self.titleSlug
    questions_info,  \* self.questions_info: rows indexed by titleSlug, sorted by QID
    response,        \* the local `response` of scrape(): [status, body]
    fault,           \* the exception that ended the constructor or the current call
    result,          \* the Question returned by the current call, or NoRecord
    prev,            \* the Question returned by the latest earlier call, or NoRecord
    calls,           \* scrape() calls made on this object
    nGets,           \* GETs sent to the bulk listing endpoint
    nPosts,          \* POSTs sent to the detail endpoint by the current call
    nSleeps,         \* time.sleep calls of the current call
    slept,           \* seconds slept by the current call
    nThrottled,      \* responses of the current call with a 429/400/5xx retry status
    listing_response \* the `response` of the loader: [status, body]

vars == <<listing, question, pc, titleSlug, questions_info, response, fault,
          result, prev, calls, nGets, nPosts, nSleeps, slept, nThrottled,
          listing_response>>

----------------------------------------------------------------------------
(* Bounds of the model *)

MaxListing == 2      \* rows in the bulk listing
MaxSnippets == 2     \* entries of codeSnippets
MaxSimilar == 2      \* entries of the similarQuestions payload
MaxRetries == 2      \* retry statuses the upstream answers within one call
MaxCalls == 2        \* scrape() calls on one object

----------------------------------------------------------------------------
(* Values *)

Slugs == {"two-sum", "3sum"}
SimilarSlugs == Slugs \cup {"gone"}
QIDs == {1, 2}
Rows == [QID : QIDs, titleSlug : Slugs]

RECURSIVE SeqsUpTo(_, _)
SeqsUpTo(S, n) ==
    IF n = 0 THEN {<<>>}
    ELSE LET shorter == SeqsUpTo(S, n - 1)
         IN shorter \cup {Append(s, x) : s \in {t \in shorter : Len(t) = n - 1}, x \in S}

NoRecord == [none |-> TRUE]
NoResponse == [status |-> 0, body |-> "none"]

GATED_BODY == "This questions is only for paid Leetcode subscribers."
NO_PYTHON_STUB == "NO_PYTHON_STUB"
PREMIUM_CUSTOMER_PYTHON_STUB == "PREMIUM_CUSTOMER_PYTHON_STUB"

\* str.format with one positional argument
format(template, arg) == template \o "{" \o arg \o "}"

camel_case(slug) ==
    CASE slug = "two-sum" -> "twoSum"
      [] slug = "3sum" -> "3sum"
      [] OTHER -> slug

SLEEP_SECONDS == 10

\* lines 89 and 94; the _m variant never sees a 404
is_not_found_m(status) == FALSE
is_not_found(status) == status = 404

\* line 91; the _m variant does not retry a 400
retry_statuses_m == {429, 500, 502, 503, 504}
retry_statuses == {429, 400, 500, 502, 503, 504}

\* requests.Response.ok: raise_for_status() does not raise; the _m variant
\* takes every status for ok
ok_m(status) == TRUE
ok(status) == ~(status >= 400 /\ status < 600)

----------------------------------------------------------------------------
(* fetch_all_questions_id_and_stub *)

\* DataFrame.sort_values("QID"): insertion of each row after the rows whose QID
\* is not larger
RECURSIVE insert_by_QID(_, _)
insert_by_QID(sorted, row) ==
    IF sorted = <<>> THEN <<row>>
    ELSE IF Head(sorted).QID <= row.QID
         THEN <<Head(sorted)>> \o insert_by_QID(Tail(sorted), row)
         ELSE <<row>> \o sorted

RECURSIVE sort_values_QID(_)
sort_values_QID(rows) ==
    IF rows = <<>> THEN <<>>
    ELSE insert_by_QID(sort_values_QID(SubSeq(rows, 1, Len(rows) - 1)), rows[Len(rows)])

\* lines 42-49: one row per listing entry, sorted by QID, indexed by titleSlug
question_data(rows) == sort_values_QID(rows)

\* the outcome of the loader for one answer of the listing endpoint; the _m
\* variant lacks raise_for_status()
load_outcome_m(status, body, rows) ==
    IF body = "unparseable" THEN [fault |-> "MalformedResponseFault", info |-> <<>>]
    ELSE IF body = "no_pairs" THEN [fault |-> "KeyError", info |-> <<>>]
    ELSE [fault |-> "none", info |-> question_data(rows)]
load_outcome(status, body, rows) ==
    IF ~ok(status) THEN [fault |-> "TransportFault", info |-> <<>>]
    ELSE IF body = "unparseable" THEN [fault |-> "MalformedResponseFault", info |-> <<>>]
    ELSE IF body = "no_pairs" THEN [fault |-> "KeyError", info |-> <<>>]
    ELSE [fault |-> "none", info |-> question_data(rows)]

----------------------------------------------------------------------------
(* The field extractors of scrape() *)

\* lines 128-133; the _m variant lacks the isPaidOnly test
_get_question_body_m(rd) == rd.content
_get_question_body(rd) ==
    IF ~rd.isPaidOnly THEN rd.content ELSE GATED_BODY

python_code_snippet(rd) ==
    SelectSeq(rd.codeSnippets, LAMBDA s : s.langSlug = "python3")

\* lines 149-170; the _last variant takes the last python3 snippet
_get_code_snippet_last(slug, rd) ==
    IF ~rd.isPaidOnly
    THEN IF Len(python_code_snippet(rd)) > 0
         THEN python_code_snippet(rd)[Len(python_code_snippet(rd))].code
         ELSE format(NO_PYTHON_STUB, camel_case(slug))
    ELSE format(PREMIUM_CUSTOMER_PYTHON_STUB, camel_case(slug))
_get_code_snippet(slug, rd) ==
    IF ~rd.isPaidOnly
    THEN IF Len(python_code_snippet(rd)) > 0
         THEN python_code_snippet(rd)[1].code
         ELSE format(NO_PYTHON_STUB, camel_case(slug))
    ELSE format(PREMIUM_CUSTOMER_PYTHON_STUB, camel_case(slug))

\* json.loads of the similarQuestions string
json_loads(s) == s.encoded

\* self.questions_info.loc[slug].QID: the QIDs of the rows labelled slug; a
\* label that occurs once gives the scalar, one that occurs several times gives
\* a Series of all of them, one that does not occur raises KeyError
loc_rows(info, slug) == SelectSeq(info, LAMBDA r : r.titleSlug = slug)
loc_QID(info, slug) ==
    LET rows == loc_rows(info, slug)
    IN [kind |-> IF Len(rows) = 1 THEN "int" ELSE "Series",
        ids |-> [i \in 1..Len(rows) |-> rows[i].QID]]

\* line 143; the _shared variant keeps the list of the call before
similar_questions_shared == IF prev = NoRecord THEN <<>> ELSE prev.SimilarQuestions
similar_questions_init == <<>>

\* the loop of lines 144-145 from entry i on; acc is similar_questions
RECURSIVE similar_loop(_, _, _, _)
similar_loop(info, qs, i, acc) ==
    IF i > Len(qs) THEN [raised |-> FALSE, value |-> acc]
    ELSE IF loc_rows(info, qs[i].titleSlug) = <<>>
         THEN [raised |-> TRUE, value |-> acc]
         ELSE similar_loop(info, qs, i + 1, Append(acc, loc_QID(info, qs[i].titleSlug)))

_get_similar_questions(info, rd) ==
    similar_loop(info, json_loads(rd.similarQuestions), 1, similar_questions_init)

\* lines 112-126
Question(slug, info, rd) ==
    [QID |-> rd.questionFrontendId,
     title |-> rd.title,
     titleSlug |-> slug,
     difficulty |-> rd.difficulty,
     Hints |-> rd.hints,
     Companies |-> rd.companyTags,
     topics |-> [i \in 1..Len(rd.topicTags) |-> rd.topicTags[i].name],
     isPaidOnly |-> rd.isPaidOnly,
     Body |-> _get_question_body(rd),
     Code |-> _get_code_snippet(slug, rd),
     SimilarQuestions |-> _get_similar_questions(info, rd).value]

\* lines 98-126: what scrape() does with the response that left the retry loop;
\* the _partial variant returns the Question with the similar questions
\* resolved before the failing lookup
after_loop_partial(slug, info, resp, rd) ==
    IF ~ok(resp.status) THEN [fault |-> "StatusFault", record |-> NoRecord]
    ELSE IF resp.body = "unparseable"
         THEN [fault |-> "MalformedResponseFault", record |-> NoRecord]
    ELSE IF resp.body = "null_question"
         THEN [fault |-> "TypeError", record |-> NoRecord]
    ELSE [fault |-> "none", record |-> Question(slug, info, rd)]
after_loop(slug, info, resp, rd) ==
    IF ~ok(resp.status) THEN [fault |-> "StatusFault", record |-> NoRecord]
    ELSE IF resp.body = "unparseable"
         THEN [fault |-> "MalformedResponseFault", record |-> NoRecord]
    ELSE IF resp.body = "null_question"
         THEN [fault |-> "TypeError", record |-> NoRecord]
    ELSE IF _get_similar_questions(info, rd).raised
         THEN [fault |-> "ReferenceResolutionFault", record |-> NoRecord]
    ELSE [fault |-> "none", record |-> Question(slug, info, rd)]

----------------------------------------------------------------------------
(* The upstream *)

ListingStatuses == {200, 403, 500}
ListingBodies == {"json", "unparseable", "no_pairs"}
DetailStatuses == {200, 304, 403, 404} \cup {429, 400, 500, 502, 503, 504}
DetailBodies == {"json", "unparseable", "null_question"}

Snippets == [langSlug : {"python3", "cpp"}, code : {"class Solution: A", "class Solution: B"}]

BaseQuestion ==
    [questionFrontendId |-> "1",
     title |-> "Two Sum",
     hints |-> <<"h1", "h2">>,
     difficulty |-> "Easy",
     companyTags |-> <<>>,
     topicTags |-> <<[name |-> "Array"], [name |-> "Hash Table"]>>,
     similarQuestions |-> [encoded |-> <<[titleSlug |-> "3sum"]>>],
     codeSnippets |-> <<[langSlug |-> "cpp", code |-> "class Solution: A"],
                        [langSlug |-> "python3", code |-> "class Solution: B"]>>,
     content |-> "<p>statement</p>",
     isPaidOnly |-> FALSE]

BaseListing == <<[QID |-> 2, titleSlug |-> "3sum"], [QID |-> 1, titleSlug |-> "two-sum"]>>

Similars(n) == {[encoded |-> [i \in 1..Len(s) |-> [titleSlug |-> s[i]]]] : s \in SeqsUpTo(SimilarSlugs, n)}

\* a few upstream states for the runs that explore the network's behaviour
SampleListings ==
    {BaseListing,
     <<[QID |-> 1, titleSlug |-> "two-sum"]>>,
     <<[QID |-> 1, titleSlug |-> "3sum"], [QID |-> 2, titleSlug |-> "3sum"]>>}
SampleQuestions ==
    {[BaseQuestion EXCEPT !.isPaidOnly = p, !.similarQuestions = s] :
        p \in BOOLEAN, s \in Similars(1)}

----------------------------------------------------------------------------
(* Initial states *)

InitWith(listings, questions) ==
    /\ listing \in listings
    /\ question \in questions
    /\ pc = "new"
    /\ titleSlug = ""
    /\ questions_info = <<>>
    /\ response = NoResponse
    /\ fault = "none"
    /\ result = NoRecord
    /\ prev = NoRecord
    /\ calls = 0
    /\ nGets = 0
    /\ nPosts = 0
    /\ nSleeps = 0
    /\ slept = 0
    /\ nThrottled = 0
    /\ listing_response = NoResponse

Init == InitWith(SampleListings, SampleQuestions)

InitCatalog ==
    InitWith(SeqsUpTo(Rows, MaxListing),
             {[BaseQuestion EXCEPT !.similarQuestions = s] : s \in Similars(MaxSimilar)})

InitFields ==
    InitWith({BaseListing},
             {[BaseQuestion EXCEPT !.isPaidOnly = p, !.content = c, !.codeSnippets = cs] :
                 p \in BOOLEAN, c \in {"<p>statement</p>", ""},
                 cs \in SeqsUpTo(Snippets, MaxSnippets)})

----------------------------------------------------------------------------
(* Actions *)

\* GetQuestion(slug): lines 24-26 with the loader, lines 29-49
Construct(statuses, bodies) ==
    /\ pc = "new"
    /\ \E slug \in Slugs, status \in statuses, body \in bodies :
         LET out == load_outcome(status, body, listing)
         IN /\ titleSlug' = slug
            /\ questions_info' = out.info
            /\ fault' = out.fault
            /\ pc' = IF out.fault = "none" THEN "ready" ELSE "init_failed"
            /\ listing_response' = [status |-> status, body |-> body]
    /\ nGets' = nGets + 1
    /\ UNCHANGED <<listing, question, response, result, prev, calls,
                   nPosts, nSleeps, slept, nThrottled>>

\* the answers the detail endpoint may give to the next POST of this call
Answers(statuses, bodies) ==
    {r \in [status : statuses, body : bodies] :
        r.status \in retry_statuses => nSleeps < MaxRetries}

Throttled(status) == IF status \in {429, 400, 500, 502, 503, 504} THEN 1 ELSE 0

\* a call of scrape() up to the first response: line 88
CallScrape(statuses, bodies) ==
    /\ pc \in {"ready", "returned", "raised"}
    /\ calls < MaxCalls
    /\ calls' = calls + 1
    /\ prev' = IF pc = "returned" THEN result ELSE prev
    /\ result' = NoRecord
    /\ fault' = "none"
    /\ nSleeps' = 0
    /\ slept' = 0
    /\ nPosts' = 1
    /\ \E r \in [status : statuses, body : bodies] :
         /\ response' = r
         /\ nThrottled' = Throttled(r.status)
    /\ pc' = "L89"
    /\ UNCHANGED <<listing, question, titleSlug, questions_info, nGets, listing_response>>

\* lines 89-90 and 94-95
RaiseNotFound ==
    /\ pc \in {"L89", "L94"}
    /\ is_not_found(response.status)
    /\ fault' = "NotFoundFault"
    /\ pc' = "raised"
    /\ UNCHANGED <<listing, question, titleSlug, questions_info, response, result,
                   prev, calls, nGets, nPosts, nSleeps, slept, nThrottled,
                   listing_response>>

\* lines 91-92: the loop test holds, sleep
Sleep ==
    /\ pc \in {"L89", "L94"}
    /\ ~is_not_found(response.status)
    /\ response.status \in retry_statuses
    /\ nSleeps' = nSleeps + 1
    /\ slept' = slept + SLEEP_SECONDS
    /\ pc' = "L93"
    /\ UNCHANGED <<listing, question, titleSlug, questions_info, response, fault,
                   result, prev, calls, nGets, nPosts, nThrottled, listing_response>>

\* line 93
Resend(statuses, bodies) ==
    /\ pc = "L93"
    /\ nPosts' = nPosts + 1
    /\ \E r \in Answers(statuses, bodies) :
         /\ response' = r
         /\ nThrottled' = nThrottled + Throttled(r.status)
    /\ pc' = "L94"
    /\ UNCHANGED <<listing, question, titleSlug, questions_info, fault, result,
                   prev, calls, nGets, nSleeps, slept, listing_response>>

\* line 91 with the loop test false, then lines 98-126
Finish ==
    /\ pc \in {"L89", "L94"}
    /\ ~is_not_found(response.status)
    /\ response.status \notin retry_statuses
    /\ LET out == after_loop(titleSlug, questions_info, response, question)
       IN /\ fault' = out.fault
          /\ result' = out.record
          /\ pc' = IF out.fault = "none" THEN "returned" ELSE "raised"
    /\ UNCHANGED <<listing, question, titleSlug, questions_info, response, prev,
                   calls, nGets, nPosts, nSleeps, slept, nThrottled, listing_response>>

Next ==
    \/ Construct(ListingStatuses, ListingBodies)
    \/ CallScrape(DetailStatuses, DetailBodies)
    \/ RaiseNotFound
    \/ Sleep
    \/ Resend(DetailStatuses, DetailBodies)
    \/ Finish

Spec == Init /\ [][Next]_vars

\* the upstream answers every request with 200 and well-formed JSON
NextReliable ==
    \/ Construct({200}, {"json"})
    \/ CallScrape({200}, {"json"})
    \/ Finish

SpecCatalog == InitCatalog /\ [][NextReliable]_vars

SpecFields == InitFields /\ [][NextReliable]_vars

----------------------------------------------------------------------------
(* Properties *)

AtResponse == pc \in {"L89", "L94"}
Ended == pc \in {"returned", "raised"}
Payload == question.similarQuestions.encoded
RecordFields == {"QID", "title", "titleSlug", "difficulty", "Hints", "Companies",
                 "topics", "isPaidOnly", "Body", "Code", "SimilarQuestions"}

\* C1: a 404 from the detail endpoint, on the first send or on a re-send, ends
\* the call with NotFoundFault in the very next step: no sleep, no further
\* request, no Question.
C1_NotFoundIsTerminal ==
    /\ [][(AtResponse /\ response.status = 404) =>
            /\ pc' = "raised"
            /\ fault' = "NotFoundFault"
            /\ result' = NoRecord
            /\ nPosts' = nPosts
            /\ nSleeps' = nSleeps
            /\ slept' = slept]_vars
    /\ [](fault = "NotFoundFault" =>
            pc = "raised" /\ response.status = 404 /\ result = NoRecord)

C1_Witness ==
    pc = "raised" /\ fault = "NotFoundFault" /\ response.status = 404 /\ nSleeps >= 1

\* C2: a response with status 429, 400, 500, 502, 503 or 504 is followed by one
\* 10-second sleep and then one re-send, never by a fault, however many came
\* before; a call that ended slept once per such response and sent one request
\* more than it slept.
C2_RetryOnThrottle ==
    /\ [][(AtResponse /\ response.status \in {429, 400, 500, 502, 503, 504}) =>
            /\ pc' = "L93"
            /\ nSleeps' = nSleeps + 1
            /\ slept' = slept + 10
            /\ nPosts' = nPosts
            /\ fault' = "none"
            /\ result' = NoRecord]_vars
    /\ [][pc = "L93" =>
            /\ pc' = "L94"
            /\ nPosts' = nPosts + 1
            /\ nSleeps' = nSleeps
            /\ slept' = slept
            /\ titleSlug' = titleSlug
            /\ fault' = "none"]_vars
    /\ [](Ended =>
            /\ nSleeps = nThrottled
            /\ nPosts = nThrottled + 1
            /\ slept = 10 * nThrottled)

C2_Witness ==
    pc = "returned" /\ nThrottled = MaxRetries /\ nSleeps = MaxRetries /\ nPosts = MaxRetries + 1

\* C3: a call returns either a Question with all eleven fields, its similar
\* questions resolved entry for entry, or a fault and no Question at all.
C3_AllOrNothing ==
    /\ pc = "returned" =>
         /\ fault = "none"
         /\ DOMAIN result = RecordFields
         /\ Len(result.SimilarQuestions) = Len(Payload)
         /\ \A i \in 1..Len(Payload) :
              \E j \in 1..Len(questions_info) :
                 questions_info[j].titleSlug = Payload[i].titleSlug
    /\ pc # "returned" => result = NoRecord
    /\ pc = "raised" =>
         fault \in {"NotFoundFault", "StatusFault", "MalformedResponseFault",
                    "TypeError", "ReferenceResolutionFault"}

C3_Witness ==
    /\ pc = "raised"
    /\ fault = "ReferenceResolutionFault"
    /\ result = NoRecord
    /\ Len(Payload) > 0

SlugAbsent(slug) ==
    \A j \in 1..Len(questions_info) : questions_info[j].titleSlug # slug

\* C4: resolution raises ReferenceResolutionFault exactly when a slug of the
\* payload is absent from the catalog index; otherwise it yields one numeric
\* identifier per entry, in payload order, the one the index maps the slug to.
C4_ResolutionExact ==
    Ended =>
        LET absent == \E i \in 1..Len(Payload) : SlugAbsent(Payload[i].titleSlug)
        IN /\ (fault = "ReferenceResolutionFault") <=> absent
           /\ ~absent =>
                /\ pc = "returned"
                /\ Len(result.SimilarQuestions) = Len(Payload)
                /\ \A i \in 1..Len(Payload) :
                     /\ result.SimilarQuestions[i].kind = "int"
                     /\ \E j \in 1..Len(questions_info) :
                          /\ questions_info[j].titleSlug = Payload[i].titleSlug
                          /\ result.SimilarQuestions[i].ids = <<questions_info[j].QID>>

\* C5: the catalog index has at most one entry per slug, the identifier of the
\* slug's last occurrence in the listing, and is ordered by identifier.
C5_IndexUniqueSorted ==
    pc = "ready" =>
        /\ \A i, j \in 1..Len(questions_info) :
             i # j => questions_info[i].titleSlug # questions_info[j].titleSlug
        /\ \A i \in 1..Len(questions_info) :
             \E k \in 1..Len(listing) :
                /\ listing[k] = questions_info[i]
                /\ \A m \in (k + 1)..Len(listing) :
                     listing[m].titleSlug # listing[k].titleSlug
        /\ \A k \in 1..Len(listing) : ~SlugAbsent(listing[k].titleSlug)
        /\ \A i \in 1..(Len(questions_info) - 1) :
             questions_info[i].QID <= questions_info[i + 1].QID

\* C6: with isPaidOnly true the Body is the gated-content text and the Code is
\* the premium stub for the camel-cased slug, whatever content and snippets
\* the upstream sent.
C6_PaidOnlyPlaceholders ==
    (pc = "returned" /\ question.isPaidOnly) =>
        /\ result.Body = "This questions is only for paid Leetcode subscribers."
        /\ result.Code = format(PREMIUM_CUSTOMER_PYTHON_STUB, camel_case(titleSlug))
        /\ result.isPaidOnly

C6_Witness ==
    /\ pc = "returned"
    /\ question.isPaidOnly
    /\ question.content # ""
    /\ \E i \in 1..Len(question.codeSnippets) : question.codeSnippets[i].langSlug = "python3"

IsPython(i) == question.codeSnippets[i].langSlug = "python3"

\* C7: with isPaidOnly false the Code is the code of the first python3 snippet
\* of the list when there is one, and the "no stub" text for the camel-cased
\* slug when there is none.
C7_CodeStub ==
    (pc = "returned" /\ ~question.isPaidOnly) =>
        /\ \A i \in 1..Len(question.codeSnippets) :
             (IsPython(i) /\ \A k \in 1..(i - 1) : ~IsPython(k)) =>
                 result.Code = question.codeSnippets[i].code
        /\ (\A i \in 1..Len(question.codeSnippets) : ~IsPython(i)) =>
                 result.Code = format(NO_PYTHON_STUB, camel_case(titleSlug))

C7_Witness ==
    /\ pc = "returned"
    /\ ~question.isPaidOnly
    /\ \E i, j \in 1..Len(question.codeSnippets) :
         /\ i < j
         /\ IsPython(i)
         /\ IsPython(j)
         /\ question.codeSnippets[i].code # question.codeSnippets[j].code

\* C8: the loader sends one GET and never another; an error status ends the
\* constructor with TransportFault, an unparseable body with
\* MalformedResponseFault, and after a failed constructor nothing is ever
\* sent to the detail endpoint.
C8_LoaderFailsFast ==
    /\ pc # "new" => nGets = 1
    /\ pc = "new" => nGets = 0
    /\ (pc # "new" /\ listing_response.status >= 400) =>
         pc = "init_failed" /\ fault = "TransportFault"
    /\ (pc # "new" /\ listing_response.status < 400 /\ listing_response.body = "unparseable") =>
         pc = "init_failed" /\ fault = "MalformedResponseFault"
    /\ pc = "init_failed" =>
         /\ calls = 0
         /\ nPosts = 0
         /\ response = NoResponse
         /\ questions_info = <<>>
         /\ ~ENABLED Next

C8_Witness ==
    pc = "init_failed" /\ fault = "TransportFault" /\ nGets = 1 /\ nPosts = 0

\* C9: scrape() leaves the object as the constructor made it and never queries
\* the listing again, and a call that returns a Question after an earlier one
\* did returns an equal Question.
C9_PureRead ==
    [][pc # "new" =>
         /\ titleSlug' = titleSlug
         /\ questions_info' = questions_info
         /\ nGets' = 1
         /\ nGets = 1
         /\ (pc' = "returned" /\ prev' # NoRecord) => result' = prev']_vars

C9_Witness ==
    /\ pc = "returned"
    /\ prev # NoRecord
    /\ calls >= 2
    /\ Len(result.SimilarQuestions) > 0

\* C10: a response whose status is neither 404 nor a retry status ends the
\* call in the next step, without a sleep or a request: with a Question only
\* if the status is below 400 and the body parses, with a fault otherwise.
C10_OtherStatusEndsCall ==
    [][(AtResponse /\ response.status \notin {404, 429, 400, 500, 502, 503, 504}) =>
         /\ pc' \in {"returned", "raised"}
         /\ nPosts' = nPosts
         /\ nSleeps' = nSleeps
         /\ slept' = slept
         /\ pc' = "returned" => (response.status < 400 /\ response.body # "unparseable")
         /\ (response.status >= 400 \/ response.body = "unparseable") =>
              /\ pc' = "raised"
              /\ fault' \in {"StatusFault", "MalformedResponseFault"}
              /\ result' = NoRecord]_vars

C10_Witness ==
    /\ pc = "raised"
    /\ fault = "StatusFault"
    /\ response.status = 403
    /\ nSleeps >= 1

====
